---------------------------- MODULE Spec2Model ----------------------------
(***************************************************************************)
(* A model of the bar chart visual of custom-src/barchart/src/visual.ts:   *)
(* the view-model transform visualTransform, the Visual's update() with   *)
(* its d3 (v3) data join on the bar container, and the click handler       *)
(* whose continuation runs when the host resolves the selection promise.   *)
(***************************************************************************)
EXTENDS Integers, Sequences, FiniteSets, TLC

(***************************************************************************)
(* Bounds of the model.                                                    *)
(***************************************************************************)
\* longest category / value series the host sends in the enumerated payloads
MaxLen == 2
\* most selection promises outstanding at once
MaxPending == 1

(***************************************************************************)
(* Program constants.                                                      *)
(***************************************************************************)
\* visual.ts:147  height = height - 25
AxisBand == 25

(***************************************************************************)
(* JavaScript numbers.  A number is NaN or an exact rational n/d, d > 0,   *)
(* in lowest terms.                                                        *)
(***************************************************************************)
Abs(i) == IF i < 0 THEN -i ELSE i

RECURSIVE Gcd(_, _)
Gcd(a, b) == IF b = 0 THEN a ELSE Gcd(b, a % b)

NaN == [nan |-> TRUE, n |-> 0, d |-> 1]

Rat(n, d) ==
    LET s == IF d < 0 THEN -1 ELSE 1
        g == Gcd(Abs(n), Abs(d))
    IN  [nan |-> FALSE, n |-> (s * n) \div g, d |-> (s * d) \div g]

Num(i) == [nan |-> FALSE, n |-> i, d |-> 1]

NumAdd(a, b) ==
    IF a.nan \/ b.nan THEN NaN ELSE Rat(a.n * b.d + b.n * a.d, a.d * b.d)

NumSub(a, b) ==
    IF a.nan \/ b.nan THEN NaN ELSE Rat(a.n * b.d - b.n * a.d, a.d * b.d)

NumMul(a, b) ==
    IF a.nan \/ b.nan THEN NaN ELSE Rat(a.n * b.n, a.d * b.d)

\* a value read from a host array: a number, or undefined past the end
Undefined == [n |-> 0, def |-> FALSE]
Defined(i) == [n |-> i, def |-> TRUE]

\* +x: undefined converts to NaN
ToNumber(v) == IF v.def THEN Num(v.n) ELSE NaN

Max(a, b) == IF a > b THEN a ELSE b
Min(a, b) == IF a < b THEN a ELSE b

SeqToSet(s) == {s[i] : i \in 1..Len(s)}

(***************************************************************************)
(* The update payload (VisualUpdateOptions).  An optional member is a      *)
(* record with a def flag; a list is a sequence.                           *)
(***************************************************************************)
NoSource == [def |-> FALSE, name |-> ""]
Source(s) == [def |-> TRUE, name |-> s]

CategorySeries(src, vals) == [source |-> src, values |-> vals]
ValueSeries(vals, max) == [values |-> vals, maxLocal |-> max]

NoList == [def |-> FALSE, items |-> <<>>]
List(s) == [def |-> TRUE, items |-> s]

NoCategorical == [def |-> FALSE, values |-> NoList, categories |-> NoList]
Categorical(cats, vals) == [def |-> TRUE, values |-> vals, categories |-> cats]

NoObjects == [def |-> FALSE, showAxis |-> FALSE]
Objects(b) == [def |-> TRUE, showAxis |-> b]

DataView(objs, cat) == [objects |-> objs, categorical |-> cat]

Viewport(w, h) == [width |-> w, height |-> h]
Options(dvs, vp) == [dataViews |-> dvs, viewport |-> vp]

(***************************************************************************)
(* Host services.                                                          *)
(***************************************************************************)
\* the string key the palette and the ordinal scale index by
\* (an undefined category reads as "undefined")
Key(cat) == cat

\* host.colorPalette.getColor(key).value: one colour per key
GetColor(key) == "color-" \o key

\* host.createSelectionIdBuilder().withCategory(category, i).createSelectionId()
CreateSelectionId(category, i) == [category |-> category, row |-> i]

\* array[i] of a host array, indices from 0: undefined past the end
CategoryAt(vals, i) == IF i + 1 <= Len(vals) THEN vals[i + 1] ELSE "undefined"
ValueAt(vals, i) == IF i + 1 <= Len(vals) THEN Defined(vals[i + 1]) ELSE Undefined

(***************************************************************************)
(* visualTransform (visual.ts:63-108).                                     *)
(***************************************************************************)
EmptyViewModel == [threw |-> FALSE, dataPoints |-> <<>>, dataMax |-> 0]
\* the call ended in a TypeError (a member read of undefined)
Threw == [threw |-> TRUE, dataPoints |-> <<>>, dataMax |-> 0]

\* the guard of visual.ts:76-82, evaluated left to right:
\* "return" the guard is true, "throw" a member of undefined is read,
\* "pass" the guard is false
ValidationGuard(o) ==
    LET dataViews == o.dataViews
    IN  IF ~dataViews.def THEN "return"
        ELSE IF Len(dataViews.items) = 0 THEN "return"
        ELSE LET dv == dataViews.items[1]
             IN  IF ~dv.categorical.def THEN "return"
                 ELSE IF ~dv.categorical.categories.def THEN "return"
                 ELSE IF Len(dv.categorical.categories.items) = 0 THEN "throw"
                 ELSE IF ~dv.categorical.categories.items[1].source.def THEN "return"
                 ELSE IF ~dv.categorical.values.def THEN "return"
                 ELSE "pass"

\* the loop bound of visual.ts:93
LoopLenMutCategoryOnly(category, dataValue) == Len(category.values)

LoopLen(category, dataValue) == Max(Len(category.values), Len(dataValue.values))

\* the object pushed at visual.ts:94-99 for row i
DataPoint(category, dataValue, i) ==
    [category    |-> CategoryAt(category.values, i),
     value       |-> ValueAt(dataValue.values, i),
     color       |-> GetColor(Key(CategoryAt(category.values, i))),
     selectionID |-> CreateSelectionId(category, i)]

\* visual.ts:101
DataMax(dataValue) == dataValue.maxLocal

visualTransform(o) ==
    LET g == ValidationGuard(o)
    IN  IF g = "return" THEN EmptyViewModel
        ELSE IF g = "throw" THEN Threw
        ELSE LET categorical == o.dataViews.items[1].categorical
                 category == categorical.categories.items[1]
             IN  \* categorical.values[0] is undefined for an empty list, and
                 \* dataValue.values at visual.ts:93 then throws
                 IF Len(categorical.values.items) = 0 THEN Threw
                 ELSE LET dataValue == categorical.values.items[1]
                          len == LoopLen(category, dataValue)
                      IN  [threw      |-> FALSE,
                           dataPoints |-> [k \in 1..len |->
                                              DataPoint(category, dataValue, k - 1)],
                           dataMax    |-> DataMax(dataValue)]


(***************************************************************************)
(* VisualSettings.parse (settings.ts): the defaults, showAxis = false,     *)
(* unless the data view carries the persisted object.                      *)
(***************************************************************************)
NoSettings == [def |-> FALSE, dataPoint |-> [showAxis |-> FALSE]]

\* options && options.dataViews && options.dataViews[0]   (visual.ts:134)
FirstDataView(o) ==
    IF o.dataViews.def /\ Len(o.dataViews.items) > 0
    THEN <<o.dataViews.items[1]>> ELSE <<>>

parseSettings(dataView) ==
    [def |-> TRUE,
     dataPoint |-> [showAxis |-> IF Len(dataView) > 0 /\ dataView[1].objects.def
                                 THEN dataView[1].objects.showAxis
                                 ELSE FALSE]]

(***************************************************************************)
(* d3.scale.linear().domain([d0, d1]).range([r0, r1])  (visual.ts:155-157) *)
(***************************************************************************)
\* d3_uninterpolateNumber(a, b)(x): b = (b - a) || 1 / b, then (x - a) / b;
\* an empty domain divides by Infinity, which is 0 for every finite x
Uninterpolate(a, b, x) ==
    IF x.nan THEN NaN
    ELSE IF b - a = 0 THEN Num(0)
    ELSE LET num == NumSub(x, Num(a))
         IN  Rat(num.n, num.d * (b - a))

\* d3_interpolateNumber(a, b)(t) = a * (1 - t) + b * t
InterpolateNumber(a, b, t) ==
    NumAdd(NumMul(Num(a), NumSub(Num(1), t)), NumMul(Num(b), t))

LinearScaleMutNotInverted(d0, d1, r0, r1, x) ==
    InterpolateNumber(r1, r0, Uninterpolate(d0, d1, x))

LinearScale(d0, d1, r0, r1, x) ==
    InterpolateNumber(r0, r1, Uninterpolate(d0, d1, x))

(***************************************************************************)
(* d3.scale.ordinal().domain(keys).rangeRoundBands([0, width], 0.1, 0.2)   *)
(* (visual.ts:159-161)                                                     *)
(***************************************************************************)
\* the domain keeps the first occurrence of every key
RECURSIVE OrdinalDomain(_)
OrdinalDomain(keys) ==
    IF Len(keys) = 0 THEN <<>>
    ELSE LET front == OrdinalDomain(SubSeq(keys, 1, Len(keys) - 1))
             last == keys[Len(keys)]
         IN  IF last \in SeqToSet(front) THEN front ELSE Append(front, last)

\* step = Math.floor((stop - start) / (n - padding + 2 * outerPadding))
BandStep(n, width) == (10 * width) \div (10 * n + 3)

\* Math.round((stop - start - (n - padding) * step) / 2)
BandStart(n, width) ==
    ((10 * width - (10 * n - 1) * BandStep(n, width)) + 10) \div 20

\* rangeBand = Math.round(step * (1 - padding))
RangeBand(n, width) == (9 * BandStep(n, width) + 5) \div 10

IndexOf(s, x) == CHOOSE i \in 1..Len(s) : s[i] = x

\* xScale(category): the start of the band of the category's key
OrdinalScale(domain, width, key) ==
    BandStart(Len(domain), width) +
        BandStep(Len(domain), width) * (IndexOf(domain, key) - 1)

(***************************************************************************)
(* State.                                                                  *)
(***************************************************************************)
VARIABLES
    options,          \* the payload of the latest update() / visualTransform call
    transformedData,  \* what visualTransform returned for it (or that it threw)
    fault,            \* the latest operation ended in an uncaught exception
    lastOp,           \* the operation that ran last, and for a continuation
                      \* whether an update ran between its click and it, and
                      \* how many rects its closure holds
    settings,         \* this.settings
    svg,              \* width and height attributes of the root svg
    plotHeight,       \* the local height of update() after visual.ts:146-148
    xAxis,            \* the axis group: font size, translation, rendered axis
    barContainer,     \* the .bar children of the bar container, in DOM order
    elems,            \* the rect elements: bound datum, attributes, listener
    selection,        \* the selection manager's active selection
    selectCalls,      \* the select() calls the latest operation made
    pending           \* select() promises whose continuation has not run

vars == <<options, transformedData, fault, lastOp, settings, svg, plotHeight,
          xAxis, barContainer, elems, selection, selectCalls, pending>>


(***************************************************************************)
(* The payloads the host sends.                                            *)
(***************************************************************************)
CatNames == {"A", "B"}
ValNums == {1, 2}
MaxLocals == {0, 2}

SeqsUpTo(S, n) == UNION {[1..k -> S] : k \in 0..n}

\* the first k entries of the endless series a, b, a, b, ...
Alternating(a, b, k) == [i \in 1..k |-> IF i % 2 = 1 THEN a ELSE b]

\* the end-to-end scenario of the documentation: categories Q1, Q2, Q3,
\* values 10, 20, 5, maximum 20, viewport 400 x 300, no axis
ScenarioCategories == <<"Q1", "Q2", "Q3">>
ScenarioValues == <<10, 20, 5>>
ScenarioOptions ==
    Options(List(<<DataView(Objects(FALSE),
                    Categorical(List(<<CategorySeries(Source("Category"),
                                                      ScenarioCategories)>>),
                                List(<<ValueSeries(ScenarioValues, 20)>>)))>>),
            Viewport(400, 300))

WellFormed(cats, vals, max) ==
    Categorical(List(<<CategorySeries(Source("Category"), cats)>>),
                List(<<ValueSeries(vals, max)>>))

\* a categorical shape with one member missing or one list empty
Degenerate ==
    LET c == CategorySeries(Source("Category"), <<"A">>)
        v == ValueSeries(<<1>>, 1)
    IN  { NoCategorical,
          Categorical(NoList, List(<<v>>)),
          Categorical(List(<<>>), List(<<v>>)),
          Categorical(List(<<CategorySeries(NoSource, <<"A">>)>>), List(<<v>>)),
          Categorical(List(<<c>>), NoList),
          Categorical(List(<<c>>), List(<<>>)) }

\* -- visualTransform alone: every shape, every series up to MaxLen
TransformCategoricals ==
    {NoCategorical} \cup
    { Categorical(cs, vs) :
        cs \in {NoList, List(<<>>)} \cup
               { List(<<CategorySeries(src, c)>>) :
                    src \in {NoSource, Source("Category")},
                    c \in SeqsUpTo(CatNames, MaxLen) },
        vs \in {NoList, List(<<>>)} \cup
               { List(<<ValueSeries(v, m)>>) :
                    v \in SeqsUpTo(ValNums, MaxLen), m \in MaxLocals } }

TransformOptions ==
    { Options(dvs, Viewport(400, 300)) :
        dvs \in {NoList, List(<<>>)} \cup
                { List(<<DataView(NoObjects, c)>>) : c \in TransformCategoricals } }
    \cup {ScenarioOptions}

\* -- update() alone: the shapes, every pairing of a few series, the settings
\*    and two viewports
RenderCats ==
    UNION { {Alternating("A", "B", k), Alternating("A", "A", k)} : k \in 0..MaxLen }
RenderVals ==
    UNION { {Alternating(1, 2, k), Alternating(2, 1, k)} : k \in 0..MaxLen }

RenderCategoricals ==
    { WellFormed(c, v, m) : c \in RenderCats, v \in RenderVals, m \in MaxLocals }

RenderFrames ==
    { <<Objects(TRUE), Viewport(400, 300)>>, <<Objects(FALSE), Viewport(400, 300)>>,
      <<Objects(TRUE), Viewport(10, 20)>>, <<NoObjects, Viewport(10, 20)>> }

RenderOptions ==
    { Options(List(<<DataView(f[1], c)>>), f[2]) :
        f \in RenderFrames, c \in RenderCategoricals }
    \cup { Options(List(<<DataView(Objects(TRUE), c)>>), Viewport(400, 300)) :
                c \in Degenerate }
    \cup { Options(dvs, Viewport(400, 300)) : dvs \in {NoList, List(<<>>)} }
    \cup {ScenarioOptions}

\* -- update(), clicks and continuations together: a few charts of one or two bars
InteractCats == {<<"A">>, <<"B">>, <<"A", "B">>, <<"B", "A">>}

InteractOptions ==
    { Options(List(<<DataView(NoObjects, WellFormed(c, [i \in 1..Len(c) |-> 1], 2))>>),
              Viewport(400, 300)) : c \in InteractCats }
    \cup { Options(NoList, Viewport(400, 300)),
           Options(List(<<DataView(NoObjects,
                     Categorical(List(<<>>), List(<<ValueSeries(<<1>>, 1)>>)))>>),
                   Viewport(400, 300)) }

(***************************************************************************)
(* The rect elements.                                                      *)
(***************************************************************************)
MaxBars == Max(MaxLen, Len(ScenarioCategories))
ElemIds == 1..(MaxBars * (1 + MaxPending))

\* a rect as document.createElementNS makes it; opacity is the fill-opacity
\* the rect is painted with, 1 while the attribute is not set
BlankElem ==
    [width |-> 0, height |-> Num(0), x |-> 0, datum |-> <<>>, y |-> Num(0),
     fill |-> "", opacity |-> "1", click |-> <<>>]

\* a rect out of the document: no script reads its datum, its geometry or its
\* listener again, a waiting continuation can still write its fill-opacity
Detached(el) == [BlankElem EXCEPT !.opacity = el.opacity]


\* the rects the document or a waiting continuation still refers to
Live(dom, pend) ==
    SeqToSet(dom) \cup
    UNION { SeqToSet(pend[i].bars) \cup {pend[i].this} : i \in 1..Len(pend) }

RECURSIVE Refs(_)
Refs(pend) ==
    IF Len(pend) = 0 THEN <<>>
    ELSE Refs(SubSeq(pend, 1, Len(pend) - 1))
            \o pend[Len(pend)].bars \o <<pend[Len(pend)].this>>

\* A rect has no name of its own.  The model numbers the rects that are still
\* referred to: those of the document first, in document order, then the
\* others in the order the waiting continuations hold them.
Order(dom, pend) == OrdinalDomain(dom \o Refs(pend))

Renamed(order, ids) == [k \in 1..Len(ids) |-> IndexOf(order, ids[k])]

\* garbage collection and renumbering: a rect nothing refers to is gone
Collect(es, dom, order) ==
    [k \in ElemIds |->
        IF k <= Len(dom) THEN [es[order[k]] EXCEPT !.click = Renamed(order, @)]
        ELSE IF k <= Len(order) THEN Detached(es[order[k]])
        ELSE BlankElem]

CollectPending(pend, order) ==
    [j \in 1..Len(pend) |->
        [pend[j] EXCEPT !.bars = Renamed(order, @),
                        !.this = IndexOf(order, @)]]

RECURSIVE TakeSmallest(_, _)
TakeSmallest(S, k) ==
    IF k = 0 THEN <<>>
    ELSE LET m == CHOOSE x \in S : \A y \in S : x <= y
         IN  <<m>> \o TakeSmallest(S \ {m}, k - 1)

(***************************************************************************)
(* Visual.constructor (visual.ts:119-131): an svg with an empty bar        *)
(* container and an empty axis group, and a selection manager.             *)
(***************************************************************************)
NoOptions == Options(NoList, Viewport(0, 0))
InitOp == [kind |-> "init", stale |-> FALSE, captured |-> 0]

Constructed ==
    /\ transformedData = EmptyViewModel
    /\ fault = FALSE
    /\ lastOp = InitOp
    /\ settings = NoSettings
    /\ svg = [width |-> 0, height |-> 0, sized |-> FALSE]
    /\ plotHeight = 0
    /\ xAxis = [styled |-> FALSE, fontSize |-> Num(0), translateY |-> 0,
                path |-> FALSE, ticks |-> <<>>]
    /\ barContainer = <<>>
    /\ elems = [e \in ElemIds |-> BlankElem]
    /\ selection = <<>>
    /\ selectCalls = <<>>
    /\ pending = <<>>

Init == options = NoOptions /\ Constructed

(***************************************************************************)
(* Visual.update (visual.ts:133-201).                                      *)
(***************************************************************************)
\* visual.ts:138, 146-148
PlotHeightMutNoBand(height, showAxis) == height

PlotHeight(height, showAxis) == IF showAxis THEN height - AxisBand ELSE height

\* visual.ts:151-153: d3.min([height, width]) * 0.04
FontSizeMutHeightOnly(height, width) == NumMul(Num(height), Rat(4, 100))

FontSize(height, width) == NumMul(Num(Min(height, width)), Rat(4, 100))

\* visual.ts:164-169: the axis generator renders the domain path and one tick
\* per entry of the ordinal domain, and removes the ticks of other entries
AxisCallMutOnlyWhenShown(axis, domain, showAxis) ==
    IF showAxis THEN [axis EXCEPT !.path = TRUE, !.ticks = domain]
    ELSE [axis EXCEPT !.path = FALSE, !.ticks = <<>>]

AxisCall(axis, domain, showAxis) == [axis EXCEPT !.path = TRUE, !.ticks = domain]

\* yScale of visual.ts:155-157 applied to a data point's value
YScale(dataMax, height, value) ==
    LinearScale(0, dataMax, height, 0, ToNumber(value))

\* visual.ts:171-177: the join by index, then enter().append('rect'), which
\* also puts the new rects at their index of the update selection
JoinedBars(dom, n, fresh) ==
    [i \in 1..n |-> IF i <= Len(dom) THEN dom[i] ELSE fresh[i - Len(dom)]]

\* visual.ts:173, 179-185, 188: the datum, the attributes and the listener of one bar
BarAttrs(old, d, bars, dataMax, height, width, domain) ==
    [old EXCEPT
        !.datum  = <<d>>,
        !.width  = RangeBand(Len(domain), width),
        !.height = NumSub(Num(height), YScale(dataMax, height, d.value)),
        !.x      = OrdinalScale(domain, width, Key(d.category)),
        !.y      = YScale(dataMax, height, d.value),
        !.fill   = d.color,
        !.click  = bars]

\* a waiting continuation has seen one more update go by
Staled(pend) == [i \in 1..Len(pend) |-> [pend[i] EXCEPT !.stale = TRUE]]

Update(o) ==
    \E parsed \in {parseSettings(FirstDataView(o))}, td \in {visualTransform(o)} :
    \E width \in {o.viewport.width},
       height \in {PlotHeight(o.viewport.height, parsed.dataPoint.showAxis)},
       domain \in {OrdinalDomain([i \in 1..Len(td.dataPoints) |->
                                    Key(td.dataPoints[i].category)])},
       bars \in {JoinedBars(barContainer, Len(td.dataPoints),
                            TakeSmallest(ElemIds \ Live(barContainer, pending),
                                Max(Len(td.dataPoints) - Len(barContainer), 0)))} :
        /\ options' = o
        /\ settings' = parsed
        /\ transformedData' = td
        /\ fault' = td.threw
        /\ lastOp' = [kind |-> "update", stale |-> FALSE, captured |-> 0]
        /\ selectCalls' = <<>>
        /\ UNCHANGED selection
        /\ IF td.threw
           THEN \* the exception leaves update() at visual.ts:136
                /\ pending' = Staled(pending)
                /\ UNCHANGED <<svg, plotHeight, xAxis, barContainer, elems>>
           ELSE /\ svg' = [width |-> width, height |-> o.viewport.height,
                           sized |-> TRUE]
                /\ plotHeight' = height
                /\ xAxis' = AxisCall([xAxis EXCEPT
                                        !.styled = TRUE,
                                        !.fontSize = FontSize(height, width),
                                        !.translateY = height],
                                     domain, parsed.dataPoint.showAxis)
                /\ \E order \in {Order(bars, pending)} :
                     \* bars.exit().remove() leaves the joined rects
                     /\ barContainer' = Renamed(order, bars)
                     /\ pending' = CollectPending(Staled(pending), order)
                     /\ elems' = Collect(
                            [e \in ElemIds |->
                                IF e \in SeqToSet(bars)
                                THEN BarAttrs(elems[e],
                                              td.dataPoints[IndexOf(bars, e)], bars,
                                              td.dataMax, height, width, domain)
                                ELSE elems[e]],
                            bars, order)

(***************************************************************************)
(* The click listener (visual.ts:188-198), up to the select() call.        *)
(***************************************************************************)
\* ISelectionManager.select(id): the id becomes the selection, or the
\* selection is cleared when the id was the one selected
Select(sel, id) == IF sel = <<id>> THEN <<>> ELSE <<id>>

Click(e) ==
    /\ e \in SeqToSet(barContainer)
    /\ Len(pending) < MaxPending
    /\ LET dataPoint == elems[e].datum[1]
           ids == Select(selection, dataPoint.selectionID)
       IN  /\ selection' = ids
           /\ selectCalls' = <<dataPoint.selectionID>>
           /\ pending' = Append(pending, [bars |-> elems[e].click, this |-> e,
                                          ids |-> ids, stale |-> FALSE, captured |-> 0])
    /\ lastOp' = [kind |-> "click", stale |-> FALSE, captured |-> 0]
    /\ fault' = FALSE
    /\ UNCHANGED <<options, transformedData, settings, svg, plotHeight, xAxis,
                   barContainer, elems>>

(***************************************************************************)
(* The continuation (visual.ts:190-197), run when the promise resolves.    *)
(***************************************************************************)
\* visual.ts:192
DimOpacityMutAlways(ids) == "0.5"

DimOpacity(ids) == IF Len(ids) > 0 THEN "0.5" ELSE "1"

\* the rects the continuation writes to: the selection held by the closure
ThenTargetsMutReselect(p, dom) == dom

ThenTargets(p, dom) == p.bars

Then(i) ==
    /\ i \in 1..Len(pending)
    /\ \E p \in {pending[i]},
          rest \in {[k \in 1..(Len(pending) - 1) |->
                        IF k < i THEN pending[k] ELSE pending[k + 1]]} :
       \E targets \in {SeqToSet(ThenTargets(p, barContainer))},
          order \in {Order(barContainer, rest)} :
           /\ pending' = CollectPending(rest, order)
           /\ elems' = Collect(
                   [e \in ElemIds |->
                       IF e = p.this THEN [elems[e] EXCEPT !.opacity = "1"]
                       ELSE IF e \in targets
                       THEN [elems[e] EXCEPT !.opacity = DimOpacity(p.ids)]
                       ELSE elems[e]],
                   barContainer, order)
           /\ lastOp' = [kind |-> "then", stale |-> p.stale,
                        captured |-> Len(p.bars)]
    /\ fault' = FALSE
    /\ selectCalls' = <<>>
    /\ UNCHANGED <<options, transformedData, settings, svg, plotHeight, xAxis,
                   barContainer, selection>>

(***************************************************************************)
(* Specifications.                                                         *)
(***************************************************************************)
\* one Visual instance driven by the host: updates, clicks, continuations
Next ==
    \/ \E o \in InteractOptions : Update(o)
    \/ \E e \in ElemIds : Click(e)
    \/ \E i \in 1..MaxPending : Then(i)

Spec == Init /\ [][Next]_vars

\* one Visual instance that is only updated
NextRender == \E o \in RenderOptions : Update(o)

SpecRender == Init /\ [][NextRender]_vars

\* visualTransform on its own, applied once to a payload
InitTransform == options \in TransformOptions /\ Constructed

Transform ==
    /\ lastOp.kind = "init"
    /\ transformedData' = visualTransform(options)
    /\ fault' = visualTransform(options).threw
    /\ lastOp' = [kind |-> "transform", stale |-> FALSE, captured |-> 0]
    /\ UNCHANGED <<options, settings, svg, plotHeight, xAxis, barContainer,
                   elems, selection, selectCalls, pending>>

SpecTransform == InitTransform /\ [][Transform]_vars


(***************************************************************************)
(* Vocabulary of the properties.                                           *)
(***************************************************************************)
\* the payload lacks the data-view list, the first data view, the categorical
\* shape, the category source (no category list, no first category series, or
\* a first series without source) or the value series (no value list, or no
\* first value series)
Lacks(o) ==
    \/ ~o.dataViews.def
    \/ Len(o.dataViews.items) = 0
    \/ ~o.dataViews.items[1].categorical.def
    \/ ~o.dataViews.items[1].categorical.categories.def
    \/ Len(o.dataViews.items[1].categorical.categories.items) = 0
    \/ ~o.dataViews.items[1].categorical.categories.items[1].source.def
    \/ ~o.dataViews.items[1].categorical.values.def
    \/ Len(o.dataViews.items[1].categorical.values.items) = 0

FirstCategory(o) == o.dataViews.items[1].categorical.categories.items[1]
FirstValues(o) == o.dataViews.items[1].categorical.values.items[1]

Transformed == lastOp.kind = "transform"
\* the latest operation was an update that ran to its end
Rendered == lastOp.kind = "update" /\ ~fault

\* the k-th bar of the document
Bar(k) == elems[barContainer[k]]
Bars == 1..Len(barContainer)

(***************************************************************************)
(* C1.  visualTransform returns the empty view model, dataPoints = [] and  *)
(* dataMax = 0, and raises no error for every payload that lacks the       *)
(* data-view list, the first data view, the categorical shape, the         *)
(* category source or the value series, an empty category list and an      *)
(* empty value-series list included.                                       *)
(***************************************************************************)
C1_EmptyViewModelWhenLacking ==
    (Transformed /\ Lacks(options)) =>
        (~fault /\ transformedData = EmptyViewModel)

\* what the code does keep of C1: the payloads whose lists are not empty
C1_HoldsForMissingMembers ==
    (Transformed /\ Lacks(options) /\ ValidationGuard(options) = "return") =>
        (~fault /\ transformedData = EmptyViewModel)

(***************************************************************************)
(* C2.  For a payload that lacks none of these, visualTransform returns    *)
(* max(len(category values), len(series values)) data points in row       *)
(* order; point i carries category[i], value[i], the palette's colour for  *)
(* category[i] and the selection handle built for row i; the handles of    *)
(* different rows differ; dataMax is the series' reported local maximum.   *)
(***************************************************************************)
C2_DataPointsPerRow ==
    (Transformed /\ ~Lacks(options)) =>
        LET cv == FirstCategory(options).values
            vv == FirstValues(options).values
            dp == transformedData.dataPoints
        IN  /\ ~fault
            /\ Len(dp) = IF Len(cv) >= Len(vv) THEN Len(cv) ELSE Len(vv)
            /\ (Len(cv) = Len(vv) => Len(dp) = Len(cv))
            /\ \A i \in 1..Len(dp) :
                /\ dp[i].category = IF i <= Len(cv) THEN cv[i] ELSE "undefined"
                /\ dp[i].value = IF i <= Len(vv) THEN Defined(vv[i]) ELSE Undefined
                /\ dp[i].color = GetColor(dp[i].category)
                /\ dp[i].selectionID = CreateSelectionId(FirstCategory(options), i - 1)
            /\ \A i, j \in 1..Len(dp) :
                i # j => dp[i].selectionID # dp[j].selectionID
            /\ transformedData.dataMax = FirstValues(options).maxLocal

\* two categories against one value, and a reported maximum that no row has
C2_Witness ==
    /\ Transformed /\ ~Lacks(options)
    /\ Len(FirstCategory(options).values) = 2
    /\ FirstValues(options).values = <<1>>
    /\ FirstValues(options).maxLocal = 2
    /\ Len(transformedData.dataPoints) = 2


(***************************************************************************)
(* C3.  After an update with plot height P and dataMax > 0, the bar of a   *)
(* data point with value v has y = P - P*v/dataMax and height P*v/dataMax, *)
(* so y + height = P, and the point's colour as fill.  For viewport        *)
(* 400 x 300, showAxis = false, categories Q1 Q2 Q3, values 10 20 5 and    *)
(* dataMax = 20 there are 3 bars, Q2 is 300 high and Q3 is 75 high.        *)
(***************************************************************************)
C3_BarGeometry ==
    /\ (Rendered /\ transformedData.dataMax > 0) =>
          \A k \in Bars :
            LET d == transformedData.dataPoints[k]
                P == plotHeight
                max == transformedData.dataMax
            IN  /\ Bar(k).fill = d.color
                /\ d.value.def =>
                    /\ Bar(k).y = Rat(P * max - P * d.value.n, max)
                    /\ Bar(k).height = Rat(P * d.value.n, max)
                    /\ NumAdd(Bar(k).y, Bar(k).height) = Num(P)
    /\ (Rendered /\ options = ScenarioOptions) =>
          /\ Len(barContainer) = 3
          /\ Bar(2).datum[1].category = "Q2" /\ Bar(2).height = Num(300)
          /\ Bar(3).datum[1].category = "Q3" /\ Bar(3).height = Num(75)

C3_Witness ==
    /\ Rendered /\ options = ScenarioOptions
    /\ Len(barContainer) = 3
    /\ Bar(1).height = Num(150) /\ Bar(1).y = Num(150)

(***************************************************************************)
(* C4.  After every update the bar container holds one bar per data point  *)
(* of that update, the i-th bar showing the i-th point; an update with an  *)
(* empty or missing data view leaves no bar and raises no exception.       *)
(***************************************************************************)
C4_BarsFollowDataPoints ==
    lastOp.kind = "update" =>
        /\ ~fault
        /\ Len(barContainer) = Len(transformedData.dataPoints)
        /\ \A k \in Bars :
            /\ Bar(k).datum = <<transformedData.dataPoints[k]>>
            /\ Bar(k).fill = transformedData.dataPoints[k].color
        /\ Lacks(options) => Len(barContainer) = 0

\* what the code does keep of C4: the updates whose visualTransform returns
C4_HoldsWhenTransformReturns ==
    Rendered =>
        /\ Len(barContainer) = Len(transformedData.dataPoints)
        /\ \A k \in Bars :
            /\ Bar(k).datum = <<transformedData.dataPoints[k]>>
            /\ Bar(k).fill = transformedData.dataPoints[k].color
            /\ Bar(k).y = YScale(transformedData.dataMax, plotHeight,
                                 transformedData.dataPoints[k].value)
        /\ Lacks(options) => Len(barContainer) = 0

\* an update that throws leaves the bars of the update before it
C4_BarsLeftBehind ==
    ~(lastOp.kind = "update" /\ fault /\ Lacks(options) /\ Len(barContainer) = 2)

(***************************************************************************)
(* C6.  For an update with viewport height H the plot height is H - 25     *)
(* when the parsed showAxis is true and H when it is false: the value      *)
(* scale's range, the bars' heights and the axis group's translation use   *)
(* it; the svg is sized to the full viewport either way.                   *)
(***************************************************************************)
C6_PlotHeight ==
    Rendered =>
        LET H == options.viewport.height
            P == IF settings.dataPoint.showAxis THEN H - 25 ELSE H
            max == transformedData.dataMax
        IN  /\ svg = [width |-> options.viewport.width, height |-> H, sized |-> TRUE]
            /\ plotHeight = P
            /\ xAxis.translateY = P
            /\ \A k \in Bars :
                LET v == transformedData.dataPoints[k].value
                IN  v.def =>
                      /\ Bar(k).y = IF max = 0 THEN Num(P)
                                    ELSE Rat(P * (max - v.n), max)
                      /\ Bar(k).height = NumSub(Num(P), Bar(k).y)

C6_Witness ==
    /\ Rendered /\ settings.dataPoint.showAxis
    /\ options.viewport.height = 300 /\ plotHeight = 275
    /\ Len(barContainer) = 2
    /\ Bar(1).height = Rat(275, 2)

(***************************************************************************)
(* C7.  When the parsed showAxis is false an update does not draw the      *)
(* axis: the axis group holds no tick and no label after it, those of an   *)
(* earlier update with showAxis = true included.                           *)
(***************************************************************************)
C7_NoAxisWhenHidden ==
    (Rendered /\ ~settings.dataPoint.showAxis) =>
        (~xAxis.path /\ xAxis.ticks = <<>>)

\* C7 as amended: the axis is rendered all the same, one tick per distinct
\* category of this update in order of first appearance; showAxis = false only
\* leaves the axis group at the bottom edge of the svg, y = H
C7_AxisRenderedAtBottomEdge ==
    (Rendered /\ ~settings.dataPoint.showAxis) =>
        LET dp == transformedData.dataPoints
            t == xAxis.ticks
            First(c) == CHOOSE i \in 1..Len(dp) :
                            /\ dp[i].category = c
                            /\ \A j \in 1..(i - 1) : dp[j].category # c
        IN  /\ xAxis.path
            /\ SeqToSet(t) = {dp[i].category : i \in 1..Len(dp)}
            /\ \A i, j \in 1..Len(t) : i < j => First(t[i]) < First(t[j])
            /\ xAxis.translateY = options.viewport.height
            /\ xAxis.translateY = svg.height

C7_Witness ==
    /\ Rendered /\ ~settings.dataPoint.showAxis
    /\ xAxis.ticks = <<"Q1", "Q2", "Q3">>
    /\ xAxis.translateY = 300

(***************************************************************************)
(* C8.  On every update the axis label font size is 0.04 times the smaller *)
(* of the two viewport dimensions, 100 * fontSize = 4 * min(width,         *)
(* height), for both values of showAxis.                                   *)
(***************************************************************************)
C8_FontSizeOfViewport ==
    Rendered =>
        NumMul(Num(100), xAxis.fontSize) =
            Num(4 * Min(options.viewport.width, options.viewport.height))

\* C8 as amended: the smaller of the viewport width and the plot height, which
\* is the viewport height less the 25 of the axis band when showAxis is true
C8_FontSizeOfPlot ==
    Rendered =>
        LET W == options.viewport.width
            H == options.viewport.height
        IN  /\ xAxis.styled
            /\ settings.dataPoint.showAxis =>
                 NumMul(Num(100), xAxis.fontSize) = Num(4 * Min(W, H - 25))
            /\ ~settings.dataPoint.showAxis =>
                 NumMul(Num(100), xAxis.fontSize) = Num(4 * Min(W, H))

C8_Witness ==
    /\ Rendered /\ settings.dataPoint.showAxis
    /\ options.viewport = Viewport(400, 300)
    /\ xAxis.fontSize = Num(11)


(***************************************************************************)
(* C5.  A click on a bar issues exactly one select() for that bar's own    *)
(* selection handle and changes no opacity.  When no update has run in     *)
(* between and the continuation fires with a non-empty list, every bar but *)
(* the clicked one has opacity 0.5 and the clicked one 1; when it fires    *)
(* with an empty list every bar, the clicked one included, has opacity 1.  *)
(***************************************************************************)
C5_ClickThenHighlight ==
    [][ /\ \A e \in ElemIds :
            Click(e) =>
              /\ Len(selectCalls') = 1
              /\ selectCalls'[1] = elems[e].datum[1].selectionID
              /\ selectCalls'[1].row = e - 1
              /\ selectCalls'[1].category.values[e] = elems[e].datum[1].category
              /\ \A k \in ElemIds : elems'[k].opacity = elems[k].opacity
              /\ barContainer' = barContainer
        /\ \A i \in 1..MaxPending :
            (Then(i) /\ ~pending[i].stale) =>
              \A k \in 1..Len(barContainer') :
                elems'[barContainer'[k]].opacity =
                    IF Len(pending[i].ids) > 0 /\ barContainer'[k] # pending[i].this
                    THEN "0.5" ELSE "1"
      ]_vars

\* the second of two bars was clicked and the continuation ran with one id
C5_Witness ==
    /\ lastOp.kind = "then" /\ ~lastOp.stale
    /\ Len(barContainer) = 2
    /\ selection = <<Bar(2).datum[1].selectionID>>
    /\ Bar(1).opacity = "0.5"
    /\ Bar(2).opacity = "1"

\* the continuation ran with an empty list over bars that were dimmed
C5_WitnessEmptyList ==
    /\ lastOp.kind = "then" /\ ~lastOp.stale
    /\ Len(barContainer) = 2
    /\ selection = <<>>

(***************************************************************************)
(* C9.  A continuation that runs after one or more updates have run since  *)
(* its click runs without fault: it writes opacity only to the rects its   *)
(* closure holds and to the clicked rect, it creates and re-attaches no    *)
(* rect, and it leaves the bars of the latest update in place.             *)
(***************************************************************************)
C9_StaleContinuation ==
    [][ \A i \in 1..MaxPending :
            (Then(i) /\ pending[i].stale) =>
              /\ ~fault'
              /\ barContainer' = barContainer
              /\ \A k \in 1..Len(barContainer) :
                    LET e == barContainer[k]
                    IN  IF e \in SeqToSet(pending[i].bars) \cup {pending[i].this}
                        THEN [elems'[e] EXCEPT !.opacity = elems[e].opacity] = elems[e]
                        ELSE elems'[e] = elems[e]
      ]_vars

\* the closure held one rect, the update in between added a second bar
C9_Witness ==
    /\ lastOp.kind = "then" /\ lastOp.stale /\ lastOp.captured = 1
    /\ Len(barContainer) = 2

\* the update in between removed a rect the closure holds
C9_WitnessRemoved ==
    /\ lastOp.kind = "then" /\ lastOp.stale /\ lastOp.captured = 2
    /\ Len(barContainer) = 1

(***************************************************************************)
(* C10.  Whenever no continuation is waiting, the highlight agrees with    *)
(* the selection manager: with an empty selection every bar has opacity 1, *)
(* otherwise a bar has opacity 1 exactly when the selection handle of its  *)
(* current data point is selected, and 0.5 when it is not.                 *)
(***************************************************************************)
C10_HighlightAgreesWithSelection ==
    Len(pending) = 0 =>
        \A k \in Bars :
            Bar(k).opacity =
                IF selection = <<>> \/ Bar(k).datum[1].selectionID \in SeqToSet(selection)
                THEN "1" ELSE "0.5"

=============================================================================
